---------------------------- MODULE Spec2Model ----------------------------
(***************************************************************************)
(* A model of src/model.py (T5QaModel): the training / validation / test   *)
(* steps, the label construction of _step, calculate_rouge and the two     *)
(* epoch-end hooks.                                                        *)
(*                                                                         *)
(* Tensors of token ids are sequences of rows, a row a sequence of         *)
(* integers.  A decoded string is the sequence of its pieces (one piece    *)
(* per non-special token).  A Python dict is a function from its keys.     *)
(* A fraction is a record [num, den] in lowest terms.  The pretrained      *)
(* model is a black box: generate and the forward pass choose their        *)
(* results nondeterministically.  The calls a step makes to the dataset    *)
(* adapter, the model and the metric calculator may raise.                 *)
(***************************************************************************)
EXTENDS Integers, Sequences, FiniteSets, TLC

VARIABLES
    pc,             \* position of the running step
    kind,           \* which step is running
    batch,          \* the batch dict the harness passed (a mutable object)
    batch_in,       \* value of the batch at the moment of the call
    source_ids,     \* locals of _generative_step / test_step
    source_mask,
    y,
    generated_ids,
    gen_lens,       \* lengths of the sequences generate produced, per example
    preds,
    target,
    loss_tensors,
    rouge,
    fwd_args,       \* arguments of the forward pass made by _step
    calls,          \* the external calls made by the running step, in order
    ret,            \* the record the step returned
    outputs,        \* records the harness collected in the running loop
    epoch_ret,      \* outcome of the epoch-end hook
    output_lns,     \* arguments and outcome of a direct calculate_rouge call
    reference_lns,
    rouge_ret

vars == <<pc, kind, batch, batch_in, source_ids, source_mask, y, generated_ids,
          gen_lens, preds, target, loss_tensors, rouge, fwd_args, calls, ret,
          outputs, epoch_ret, output_lns, reference_lns, rouge_ret>>

stepVars == <<pc, kind, batch, batch_in, source_ids, source_mask, y,
              generated_ids, gen_lens, preds, target, loss_tensors, rouge,
              fwd_args, calls, ret>>

rougeVars == <<output_lns, reference_lns, rouge_ret>>

-----------------------------------------------------------------------------
(* Bounds of the model *)

MaxBatch == 2       \* examples per batch
MaxLen == 3         \* padded width of a batch
MaxGen == 2         \* longest generated sequence
MaxPairs == 2       \* longest list handed to calculate_rouge directly
MaxOutputs == 2     \* records collected before an epoch-end hook runs

-----------------------------------------------------------------------------
(* Vocabulary *)

pad_token_id == 0
eos_token_id == 1
IGNORE == -100

SpecialIds == {pad_token_id, eos_token_id}

\* The piece a token id decodes to.
Piece(id) ==
    CASE id = 2 -> "the"
      [] id = 3 -> "cat"
      [] id = 4 -> "cats"
      [] id = 5 -> "sat"
      [] id = 6 -> "!"
      [] OTHER -> " "

Whitespace == {" "}

ROUGE_KEYS == <<"rouge1", "rouge2", "rougeL">>

Range(s) == {s[i] : i \in DOMAIN s}

-----------------------------------------------------------------------------
(* Fractions *)

RECURSIVE Gcd(_, _)
Gcd(a, b) == IF b = 0 THEN a ELSE Gcd(b, a % b)

Frac(n, d) == LET g == Gcd(n, d) IN
              IF n = 0 THEN [num |-> 0, den |-> 1]
              ELSE [num |-> n \div g, den |-> d \div g]

FAdd(a, b) == Frac(a.num * b.den + b.num * a.den, a.den * b.den)
FMul(a, b) == Frac(a.num * b.num, a.den * b.den)
FDiv(a, b) == Frac(a.num * b.den, a.den * b.num)     \* b.num > 0
Zero == Frac(0, 1)
One == Frac(1, 1)

RECURSIVE SumInts(_)
SumInts(s) == IF s = <<>> THEN 0 ELSE Head(s) + SumInts(Tail(s))

RECURSIVE SumFracs(_)
SumFracs(s) == IF s = <<>> THEN Zero ELSE FAdd(Head(s), SumFracs(Tail(s)))

\* np.mean of a non-empty list of integers
MeanInts(s) == Frac(SumInts(s), Len(s))

Max(a, b) == IF a >= b THEN a ELSE b
Min(a, b) == IF a <= b THEN a ELSE b

-----------------------------------------------------------------------------
(* The scorer and the aggregator calculate_rouge uses (rouge_score:        *)
(* RougeScorer(ROUGE_KEYS, use_stemmer=True) and BootstrapAggregator).     *)

\* Pieces made of letters and digits; every other character separates tokens.
IsAlnum(p) == p \notin {"!", " "}

\* Porter stemming, applied to tokens longer than three characters.
Stem(p) == IF p = "cats" THEN "cat" ELSE p

\* The scorer's tokens of a text: its alphanumeric words, stemmed.
Tokenize(text) == LET words == SelectSeq(text, IsAlnum) IN
                  [i \in DOMAIN words |-> Stem(words[i])]

Ngrams(tokens, n) == [i \in 1..(Len(tokens) - n + 1) |-> SubSeq(tokens, i, i + n - 1)]

Count(s, x) == Cardinality({i \in DOMAIN s : s[i] = x})

\* Sum over the distinct n-grams of the target of the smaller of the two counts.
Overlap(t, p) ==
    SumInts([i \in DOMAIN t |->
                IF \E j \in 1..(i - 1) : t[j] = t[i] THEN 0
                ELSE Min(Count(t, t[i]), Count(p, t[i]))])

fmeasure(precision, recall) ==
    IF FAdd(precision, recall).num > 0
    THEN FDiv(FMul(Frac(2, 1), FMul(precision, recall)), FAdd(precision, recall))
    ELSE Zero

ScoreNgrams(target_ngrams, prediction_ngrams) ==
    LET inter == Overlap(target_ngrams, prediction_ngrams)
        precision == Frac(inter, Max(Len(prediction_ngrams), 1))
        recall == Frac(inter, Max(Len(target_ngrams), 1))
    IN fmeasure(precision, recall)

RECURSIVE Lcs(_, _)
Lcs(a, b) ==
    IF a = <<>> \/ b = <<>> THEN 0
    ELSE IF Head(a) = Head(b) THEN 1 + Lcs(Tail(a), Tail(b))
    ELSE Max(Lcs(Tail(a), b), Lcs(a, Tail(b)))

ScoreLcs(target_tokens, prediction_tokens) ==
    IF target_tokens = <<>> \/ prediction_tokens = <<>> THEN Zero
    ELSE LET l == Lcs(target_tokens, prediction_tokens) IN
         fmeasure(Frac(l, Len(prediction_tokens)), Frac(l, Len(target_tokens)))

\* scorer.score(reference_ln, output_ln): the F-measure of each metric
\* (calculate_rouge reads no other part of a score).
Score(reference_ln, output_ln) ==
    LET t == Tokenize(reference_ln)
        p == Tokenize(output_ln)
    IN [rouge1 |-> ScoreNgrams(Ngrams(t, 1), Ngrams(p, 1)),
        rouge2 |-> ScoreNgrams(Ngrams(t, 2), Ngrams(p, 2)),
        rougeL |-> ScoreLcs(t, p)]

\* Pairs taken from opposite ends of the two lists.
ZipCrossed(a, b) == [i \in 1..Min(Len(a), Len(b)) |-> <<a[i], b[Len(b) + 1 - i]>>]

\* zip(reference_lns, output_lns): stops at the shorter list.
Zip(a, b) == [i \in 1..Min(Len(a), Len(b)) |-> <<a[i], b[i]>>]

\* The scores added to the aggregator, one per zipped pair.
AddedScores(output_lns_, reference_lns_) ==
    LET pairs == Zip(reference_lns_, output_lns_) IN
    [i \in DOMAIN pairs |-> Score(pairs[i][1], pairs[i][2])]

\* The means of the bootstrap resamples of a list of values.  The midpoint
\* the aggregator reports is the median of the means of the resamples it
\* drew: taken here to be any one of them, which is the common value when
\* all the values are equal.
ResampleMeans(fs) ==
    {FDiv(SumFracs([i \in DOMAIN fs |-> fs[r[i]]]), Frac(Len(fs), 1)) :
        r \in [DOMAIN fs -> DOMAIN fs]}

\* aggregator.aggregate() reduced to v.mid.fmeasure per key: every mapping
\* the resampling can produce.  No score added: an empty mapping.
Aggregate(scores) ==
    IF scores = <<>> THEN {[k \in {} |-> Zero]}
    ELSE LET means(k) == ResampleMeans([i \in DOMAIN scores |-> scores[i][k]])
         IN {[rouge1 |-> m1, rouge2 |-> m2, rougeL |-> mL] :
                m1 \in means(ROUGE_KEYS[1]), m2 \in means(ROUGE_KEYS[2]),
                mL \in means(ROUGE_KEYS[3])}

\* calculate_rouge(output_lns, reference_lns): the mappings it can return.
calculate_rouge(output_lns_, reference_lns_) ==
    Aggregate(AddedScores(output_lns_, reference_lns_))

-----------------------------------------------------------------------------
(* Batches *)

TargetPattern == <<2, 4, 5, 6>>
SourcePattern == <<3, 5, 2, 6>>
GenPattern == <<2, 7, 3, 5>>

\* A text of k tokens: k - 1 tokens of the pattern, then the end of sequence.
Text(pat, k) == [i \in 1..k |-> IF i = k THEN eos_token_id
                                ELSE pat[((i - 1) % Len(pat)) + 1]]

\* Right padding to a common width, as the collate function does.
PadTo(row, w) == [i \in 1..w |-> IF i <= Len(row) THEN row[i] ELSE pad_token_id]

\* The batch of width w whose i-th example has ks[i] source and target tokens.
MakeBatch(w, ks) ==
    [source_ids |-> [i \in DOMAIN ks |-> PadTo(Text(SourcePattern, ks[i]), w)],
     source_mask |-> [i \in DOMAIN ks |->
                         [j \in 1..w |-> IF j <= ks[i] THEN 1 ELSE 0]],
     target_ids |-> [i \in DOMAIN ks |-> PadTo(Text(TargetPattern, ks[i]), w)]]

\* The batches of the steps: up to MaxBatch examples, shortest first (the
\* lengths generate produces are chosen independently of that order).
Batches ==
    UNION {UNION {{MakeBatch(w, ks) :
                      ks \in {f \in [1..n -> 1..w] :
                                 \A i \in 1..(n - 1) : f[i] <= f[i + 1]}} :
                  n \in 1..MaxBatch} :
           w \in 1..MaxLen}

\* The batches of the epoch specification: one example each.
EpochBatches == {MakeBatch(w, <<w>>) : w \in {1, 2}}

LossValues == {1, 2}

\* A scalar tensor, and a Python tuple.
Scalar(v) == [kind |-> "scalar", v |-> v]
Tuple(items) == [kind |-> "tuple", items |-> items]

EmptyDict == [k \in {} |-> 0]

\* d.update(e)
Update(d, e) == e @@ d

Front(row) == SubSeq(row, 1, Len(row) - 1)

\* An entry of the call log: the call, its arguments, whether it raised.
CallRec(op, args) == [op |-> op, args |-> args, raised |-> FALSE]
FailedCall(op, args) == [op |-> op, args |-> args, raised |-> TRUE]

-----------------------------------------------------------------------------
(* Helpers of the steps *)

\* Index of the last column holding a non-pad token in some row (0: none).
LastUsedColumn(ids, pad) ==
    LET used == {j \in 1..Len(ids[1]) : \E i \in DOMAIN ids : ids[i][j] # pad}
    IN IF used = {} THEN 0 ELSE CHOOSE j \in used : \A k \in used : k <= j

KeepColumns(ids, n) == [i \in DOMAIN ids |-> SubSeq(ids[i], 1, n)]

\* QaDataset.trim_seq2seq_batch(batch, pad_token_id): the trailing all-pad
\* columns of the source (ids and mask) and of the target are cut off; the
\* batch itself is not written.
trim_seq2seq_batch(b, pad) ==
    LET ns == LastUsedColumn(b.source_ids, pad)
        nt == LastUsedColumn(b.target_ids, pad)
    IN <<KeepColumns(b.source_ids, ns), KeepColumns(b.source_mask, ns),
         KeepColumns(b.target_ids, nt)>>

\* What generate returns for sequences of the given lengths: one row per
\* example, padded to the longest.
Generated(lens) ==
    LET widest == CHOOSE m \in Range(lens) : \A l \in Range(lens) : l <= m
    IN [i \in DOMAIN lens |-> PadTo(Text(GenPattern, lens[i]), widest)]

\* tokenizer.decode(ids, skip_special_tokens=True, ...)
decode(ids) == LET kept == SelectSeq(ids, LAMBDA t : t \notin SpecialIds)
               IN [i \in DOMAIN kept |-> Piece(kept[i])]

batch_decode(ids) == [i \in DOMAIN ids |-> decode(ids[i])]

\* str.strip
RECURSIVE LStrip(_)
LStrip(s) == IF s # <<>> /\ Head(s) \in Whitespace THEN LStrip(Tail(s)) ELSE s

RECURSIVE RStrip(_)
RStrip(s) == IF s # <<>> /\ s[Len(s)] \in Whitespace THEN RStrip(Front(s)) ELSE s

strip(s) == RStrip(LStrip(s))

\* Empty strings dropped from the decoded list.
ids_to_clean_text_nonempty(ids) ==
    SelectSeq([i \in DOMAIN ids |-> strip(batch_decode(ids)[i])], LAMBDA t : t # <<>>)

\* lmap(str.strip, gen_text)
ids_to_clean_text(ids) == [i \in DOMAIN ids |-> strip(batch_decode(ids)[i])]

\* lm_labels[y[:, 1:] == pad_token_id] = -100, applied to a tensor of rows
MaskPad(rows, pad) ==
    [i \in DOMAIN rows |->
        [j \in DOMAIN rows[i] |-> IF rows[i][j] = pad THEN IGNORE ELSE rows[i][j]]]

y_ids_of(y_) == [i \in DOMAIN y_ |-> Front(y_[i])]

\* Labels taken from the unshifted target.
lm_labels_unshifted(y_, pad) == MaskPad(y_ids_of(y_), pad)

lm_labels_of(y_, pad) == MaskPad([i \in DOMAIN y_ |-> Tail(y_[i])], pad)

\* The slice without clone(): a view of y.
LabelsAreView == TRUE

\* y[:, 1:].clone() is a copy: the masked assignment does not reach y.
LabelsShareTargetStorage == FALSE

\* target_ids of the batch after the masked assignment of _step
TargetAfterStep(y_, pad) ==
    IF LabelsShareTargetStorage
    THEN [i \in DOMAIN y_ |-> <<y_[i][1]>> \o lm_labels_of(y_, pad)[i]]
    ELSE y_

-----------------------------------------------------------------------------
(* The steps *)

StepKinds == {"training_step", "validation_step", "test_step"}

InitStep ==
    /\ pc = "idle"
    /\ kind = "none"
    /\ batch = MakeBatch(1, <<1>>)
    /\ batch_in = batch
    /\ source_ids = <<>>
    /\ source_mask = <<>>
    /\ y = <<>>
    /\ generated_ids = <<>>
    /\ gen_lens = <<>>
    /\ preds = <<>>
    /\ target = <<>>
    /\ loss_tensors = Tuple(<<>>)
    /\ rouge = EmptyDict
    /\ fwd_args = <<>>
    /\ calls = <<>>
    /\ ret = EmptyDict
    /\ outputs = <<>>
    /\ epoch_ret = [status |-> "none"]

Init ==
    /\ InitStep
    /\ output_lns = <<>>
    /\ reference_lns = <<>>
    /\ rouge_ret = [status |-> "none"]

\* The locals of a step and its batch do not outlive it.
Forget ==
    /\ pc' = "idle"
    /\ batch' = MakeBatch(1, <<1>>)
    /\ batch_in' = batch'
    /\ source_ids' = <<>>
    /\ source_mask' = <<>>
    /\ y' = <<>>
    /\ generated_ids' = <<>>
    /\ gen_lens' = <<>>
    /\ preds' = <<>>
    /\ target' = <<>>
    /\ loss_tensors' = Tuple(<<>>)
    /\ rouge' = EmptyDict
    /\ fwd_args' = <<>>
    /\ calls' = <<>>
    /\ ret' = EmptyDict

\* Where step k starts: training_step goes straight to _step, the two
\* evaluation steps trim the batch first.
FirstPc(k) == IF k = "training_step" THEN "step" ELSE "trim"

\* What follows _step in step k.
AfterStep(k) == IF k = "validation_step" THEN "rouge" ELSE "return"

\* The untrimmed source of the batch.
generate_args_untrimmed(b, ids, mask) == <<b.source_ids, b.source_mask>>

\* The conditioning generate is given: the trimmed source ids and mask.
generate_args(b, ids, mask) == <<ids, mask>>

\* The harness calls step k with batch b.
Enter(k, b) ==
    /\ kind' = k
    /\ batch' = b
    /\ batch_in' = b
    /\ pc' = FirstPc(k)
    /\ epoch_ret' = [status |-> "none"]
    /\ UNCHANGED <<source_ids, source_mask, y, generated_ids, gen_lens, preds, target,
                   loss_tensors, rouge, fwd_args, calls, ret>>

\* An exception that is caught, the step going on.
AfterRaiseCaught(next) == next

\* Where an exception raised by a call of the step leaves the step: no
\* handler catches it, the step ends.
AfterRaise(next) == "raised"

\* The call `op` raises.
Raises(op, args, next) ==
    /\ calls' = Append(calls, FailedCall(op, args))
    /\ pc' = AfterRaise(next)

\* The harness calls a step with a fresh batch.
Call ==
    /\ pc = "idle"
    /\ \E k \in StepKinds, b \in Batches : Enter(k, b)
    /\ UNCHANGED <<outputs, rougeVars>>

\* The harness drops the outcome of the step (its record, or its exception)
\* and what it had collected.
Discard ==
    /\ pc \in {"done", "raised"}
    /\ Forget
    /\ outputs' = <<>>
    /\ UNCHANGED <<kind, epoch_ret, rougeVars>>

\* _generative_step / test_step: the batch is trimmed
Trim ==
    /\ pc = "trim"
    /\ \/ /\ LET t == trim_seq2seq_batch(batch, pad_token_id) IN
             /\ source_ids' = t[1]
             /\ source_mask' = t[2]
             /\ y' = t[3]
          /\ calls' = Append(calls, CallRec("trim_seq2seq_batch", <<batch>>))
          /\ pc' = "generate"
       \/ /\ Raises("trim_seq2seq_batch", <<batch>>, "generate")
          /\ UNCHANGED <<source_ids, source_mask, y>>
    /\ UNCHANGED <<kind, batch, batch_in, generated_ids, gen_lens, preds, target,
                   loss_tensors, rouge, fwd_args, ret, outputs, epoch_ret, rougeVars>>

\* self.model.generate(input_ids=source_ids, attention_mask=source_mask, ...)
Generate ==
    /\ pc = "generate"
    /\ \/ /\ \E lens \in [DOMAIN source_ids -> 1..MaxGen] :
                /\ generated_ids' = Generated(lens)
                /\ gen_lens' = lens
          /\ calls' = Append(calls, CallRec("generate",
                                             generate_args(batch, source_ids, source_mask)))
          /\ pc' = "decode"
       \/ /\ Raises("generate", generate_args(batch, source_ids, source_mask), "decode")
          /\ UNCHANGED <<generated_ids, gen_lens>>
    /\ UNCHANGED <<kind, batch, batch_in, source_ids, source_mask, y, preds, target,
                   loss_tensors, rouge, fwd_args, ret, outputs, epoch_ret, rougeVars>>

\* preds and target are decoded: ids_to_clean_text in _generative_step,
\* tokenizer.decode per row in test_step
Decode ==
    /\ pc = "decode"
    /\ preds' = IF kind = "validation_step" THEN ids_to_clean_text(generated_ids)
                ELSE batch_decode(generated_ids)
    /\ target' = IF kind = "validation_step" THEN ids_to_clean_text(y)
                 ELSE batch_decode(y)
    /\ calls' = calls \o <<CallRec("decode", <<generated_ids>>), CallRec("decode", <<y>>)>>
    /\ pc' = "step"
    /\ UNCHANGED <<kind, batch, batch_in, source_ids, source_mask, y, generated_ids,
                   gen_lens, loss_tensors, rouge, fwd_args, ret, outputs, epoch_ret,
                   rougeVars>>

\* _step(batch): the teacher-forced forward pass
Step ==
    /\ pc = "step"
    /\ LET y_ == batch.target_ids
           args == <<batch.source_ids, batch.source_mask,
                     y_ids_of(y_), lm_labels_of(y_, pad_token_id)>>
           next == AfterStep(kind)
       IN /\ batch' = [batch EXCEPT !.target_ids = TargetAfterStep(y_, pad_token_id)]
          /\ fwd_args' = args
          /\ \/ /\ \E l \in LossValues : loss_tensors' = Tuple(<<Scalar(l)>>)
                /\ calls' = Append(calls, CallRec("forward", args))
                /\ pc' = next
             \/ /\ Raises("forward", args, next)
                /\ UNCHANGED loss_tensors
    /\ UNCHANGED <<kind, batch_in, source_ids, source_mask, y, generated_ids, gen_lens,
                   preds, target, rouge, ret, outputs, epoch_ret, rougeVars>>

\* rouge = T5QaModel.calculate_rouge(preds, target)
Rouge ==
    /\ pc = "rouge"
    /\ \/ /\ rouge' \in calculate_rouge(preds, target)
          /\ calls' = Append(calls, CallRec("calculate_rouge", <<preds, target>>))
          /\ pc' = "return"
       \/ /\ Raises("calculate_rouge", <<preds, target>>, "return")
          /\ UNCHANGED rouge
    /\ UNCHANGED <<kind, batch, batch_in, source_ids, source_mask, y, generated_ids,
                   gen_lens, preds, target, loss_tensors, fwd_args, ret, outputs,
                   epoch_ret, rougeVars>>

loss_names == <<"loss">>

\* {name: loss for name, loss in zip(self.loss_names, loss_tensors)}
NamedLosses(tensors) ==
    LET n == Min(Len(loss_names), Len(tensors.items)) IN
    [k \in {loss_names[i] : i \in 1..n} |->
        tensors.items[CHOOSE i \in 1..n : loss_names[i] = k]]

\* np.mean(lmap(len, generated_ids))
summ_len_of(ids) == MeanInts([i \in DOMAIN ids |-> Len(ids[i])])

training_record(tensors) ==
    [loss |-> tensors.items[1], log |-> NamedLosses(tensors)]

validation_record(tensors, ids, preds_, target_, rouge_) ==
    Update(NamedLosses(tensors),
           Update([summ_len |-> summ_len_of(ids), preds |-> preds_, target |-> target_],
                  rouge_))

\* The record under the key test_epoch_end reads.
test_record_test_loss(loss, preds_, target_) ==
    [test_loss |-> loss, preds |-> preds_, target |-> target_]

test_record(loss, preds_, target_) ==
    [val_loss |-> loss, preds |-> preds_, target |-> target_]

\* The step returns its record.
Return ==
    /\ pc = "return"
    /\ ret' = CASE kind = "training_step" -> training_record(loss_tensors)
                [] kind = "validation_step" ->
                       validation_record(loss_tensors, generated_ids, preds, target, rouge)
                [] OTHER -> test_record(loss_tensors, preds, target)
    /\ pc' = "done"
    /\ UNCHANGED <<kind, batch, batch_in, source_ids, source_mask, y, generated_ids,
                   gen_lens, preds, target, loss_tensors, rouge, fwd_args, calls,
                   outputs, epoch_ret, rougeVars>>

Next == Call \/ Discard \/ Trim \/ Generate \/ Decode \/ Step \/ Rouge \/ Return

Spec == Init /\ [][Next]_vars

-----------------------------------------------------------------------------
(* calculate_rouge called directly on two lists of strings *)

Texts == {<<"cat">>, <<"the", "cats">>, <<"the", "cat", "sat">>, <<"!">>}

TextLists == UNION {[1..n -> Texts] : n \in 0..MaxPairs}

InitRouge ==
    /\ InitStep
    /\ output_lns \in TextLists
    /\ reference_lns \in TextLists
    /\ rouge_ret = [status |-> "none"]

CalculateRouge ==
    /\ rouge_ret.status = "none"
    /\ \E m \in calculate_rouge(output_lns, reference_lns) :
          rouge_ret' = [status |-> "returned", value |-> m]
    /\ UNCHANGED <<stepVars, outputs, epoch_ret, output_lns, reference_lns>>

NextRouge == CalculateRouge

SpecRouge == InitRouge /\ [][NextRouge]_vars

-----------------------------------------------------------------------------
(* The evaluation loops of the harness and the epoch-end hooks *)

KeyError(k) == [status |-> "raised", error |-> "KeyError", key |-> k]
Raised(e) == [status |-> "raised", error |-> e]

\* The body shared by validation_epoch_end (loss_key "val_loss", accuracy
\* under "val_acc") and test_epoch_end ("test_loss", "test_acc").
epoch_end(outs, loss_key, acc_key) ==
    LET n_correct == SumInts([i \in DOMAIN outs |-> outs[i]["n_correct_pred"]])
        n_pred == SumInts([i \in DOMAIN outs |-> outs[i]["n_pred"]])
        avg_loss == Frac(SumInts([i \in DOMAIN outs |-> outs[i][loss_key].v]), Len(outs))
        logs == [k \in {loss_key, acc_key} |->
                    IF k = loss_key THEN avg_loss ELSE Frac(n_correct, n_pred)]
    IN
    IF \E i \in DOMAIN outs : loss_key \notin DOMAIN outs[i] THEN KeyError(loss_key)
    ELSE IF outs = <<>> THEN Raised("RuntimeError")
    ELSE IF \E i \in DOMAIN outs : outs[i][loss_key].kind # "scalar" THEN Raised("TypeError")
    ELSE IF \E i \in DOMAIN outs : "n_correct_pred" \notin DOMAIN outs[i]
         THEN KeyError("n_correct_pred")
    ELSE IF \E i \in DOMAIN outs : "n_pred" \notin DOMAIN outs[i] THEN KeyError("n_pred")
    ELSE IF n_pred = 0 THEN Raised("ZeroDivisionError")
    ELSE [status |-> "returned",
          value |-> [k \in {loss_key, "log"} |-> IF k = "log" THEN logs ELSE avg_loss]]

validation_epoch_end(outs) == epoch_end(outs, "val_loss", "val_acc")

test_epoch_end(outs) == epoch_end(outs, "test_loss", "test_acc")

\* The harness calls the next step of a loop, or the first step of a new one.
CallEpoch ==
    /\ pc = "idle"
    /\ \E k \in StepKinds, b \in EpochBatches :
          /\ \/ epoch_ret.status # "none" /\ outputs' = <<>>
             \/ /\ epoch_ret.status = "none"
                /\ outputs = <<>> \/ k = kind
                /\ Len(outputs) < MaxOutputs
                /\ UNCHANGED outputs
          /\ Enter(k, b)
    /\ UNCHANGED rougeVars

\* The harness appends the record of an evaluation step to the loop's outputs.
Collect ==
    /\ pc = "done"
    /\ kind \in {"validation_step", "test_step"}
    /\ outputs' = Append(outputs, ret)
    /\ Forget
    /\ UNCHANGED <<kind, epoch_ret, rougeVars>>

ValidationEpochEnd ==
    /\ pc = "idle"
    /\ kind = "validation_step"
    /\ epoch_ret.status = "none"
    /\ epoch_ret' = validation_epoch_end(outputs)
    /\ UNCHANGED <<stepVars, outputs, rougeVars>>

TestEpochEnd ==
    /\ pc = "idle"
    /\ kind = "test_step"
    /\ epoch_ret.status = "none"
    /\ epoch_ret' = test_epoch_end(outputs)
    /\ UNCHANGED <<stepVars, outputs, rougeVars>>

NextEpoch ==
    \/ CallEpoch \/ Discard \/ Collect
    \/ Trim \/ Generate \/ Decode \/ Step \/ Rouge \/ Return
    \/ ValidationEpochEnd \/ TestEpochEnd

SpecEpoch == Init /\ [][NextEpoch]_vars

-----------------------------------------------------------------------------
(* Properties *)

IsScalar(t) == t.kind = "scalar"

\* The calls of the running step that reach the model or the metric calculator.
ModelCalls ==
    SelectSeq(calls, LAMBDA c : c.op \in {"generate", "forward", "calculate_rouge"})

\* The records of evaluation steps at hand: those collected, and the one
\* just returned.
EvalRecords ==
    Range(outputs) \cup
    (IF pc = "done" /\ kind \in {"validation_step", "test_step"} THEN {ret} ELSE {})

\* C1: once _step has made its forward call, for every target row of the
\* batch (length n >= 1) the decoder-input row is the row without its last
\* token and the label row is the row without its first token, of length
\* n - 1, with -100 exactly where that token is the pad id.
C1_LabelsAndDecoderInput ==
    fwd_args # <<>> =>
        /\ Len(fwd_args[3]) = Len(batch_in.target_ids)
        /\ Len(fwd_args[4]) = Len(batch_in.target_ids)
        /\ \A i \in DOMAIN batch_in.target_ids :
              LET row == batch_in.target_ids[i]
                  n == Len(row)
                  dec == fwd_args[3][i]
                  lab == fwd_args[4][i]
              IN /\ n >= 1
                 /\ Len(dec) = n - 1
                 /\ \A j \in 1..(n - 1) : dec[j] = row[j]
                 /\ Len(lab) = n - 1
                 /\ \A j \in 1..(n - 1) :
                       lab[j] = IF row[j + 1] = pad_token_id THEN IGNORE ELSE row[j + 1]

\* A finished step whose labels hold both a kept token and a masked pad.
C1_Witness ==
    /\ pc = "done"
    /\ fwd_args # <<>>
    /\ \E i \in DOMAIN fwd_args[4] :
          \E j, k \in DOMAIN fwd_args[4][i] :
              /\ fwd_args[4][i][j] = IGNORE
              /\ fwd_args[4][i][k] # IGNORE
              /\ fwd_args[4][i][k] = batch_in.target_ids[i][k + 1]

\* C2 (as claimed): a calculate_rouge call on lists of different lengths
\* returns no mapping.
C2_Claim ==
    (rouge_ret.status # "none" /\ Len(output_lns) # Len(reference_lns))
        => rouge_ret.status # "returned"

\* C3 (as claimed): a returned record has exactly the keys of its step kind
\* and its loss entry is a scalar; the two loss entries of a training record
\* are the same value.
C3_Claim ==
    pc = "done" =>
        CASE kind = "training_step" ->
                 /\ DOMAIN ret = {"loss", "log"}
                 /\ DOMAIN ret["log"] = {"loss"}
                 /\ ret["log"]["loss"] = ret["loss"]
                 /\ IsScalar(ret["loss"])
          [] kind = "validation_step" ->
                 /\ DOMAIN ret = {"loss", "rouge1", "rouge2", "rougeL", "summ_len",
                                  "preds", "target"}
                 /\ IsScalar(ret["loss"])
          [] OTHER ->
                 /\ DOMAIN ret = {"val_loss", "preds", "target"}
                 /\ IsScalar(ret["val_loss"])

\* C4 (as claimed): summ_len of a validation record is the mean of the
\* lengths of the sequences generated for the examples of the batch.
C4_Claim ==
    (pc = "done" /\ kind = "validation_step") => ret["summ_len"] = MeanInts(gen_lens)

\* C5: at every point of a training, validation or test step the batch
\* holds the values it held when the step was called.
C5_BatchUnchanged == batch = batch_in

\* A finished validation step on a batch with a pad after the first column
\* of a target row (a position the labels mask).
C5_Witness ==
    /\ pc = "done"
    /\ kind = "validation_step"
    /\ \E i \in DOMAIN batch_in.target_ids :
          \E j \in 2..Len(batch_in.target_ids[i]) :
              batch_in.target_ids[i][j] = pad_token_id

\* C6 (as claimed): identical outputs and references, the list not empty,
\* give 1 for each of the three metrics.
C6_Claim ==
    (rouge_ret.status = "returned" /\ output_lns = reference_lns /\ output_lns # <<>>)
        => \A k \in Range(ROUGE_KEYS) : rouge_ret.value[k] = One

\* C6 (amended): identical outputs and references, the list not empty and
\* every string of it of at least two scorer tokens, give 1 for each of the
\* three metrics.
C6_IdenticalMultiToken ==
    (/\ rouge_ret.status = "returned"
     /\ output_lns = reference_lns
     /\ output_lns # <<>>
     /\ \A i \in DOMAIN output_lns : Len(Tokenize(output_lns[i])) >= 2)
        => \A k \in Range(ROUGE_KEYS) : rouge_ret.value[k] = One

\* A call on two different strings of two and three tokens, used as outputs
\* and as references.
C6_Witness ==
    /\ rouge_ret.status = "returned"
    /\ output_lns = reference_lns
    /\ output_lns = <<<<"the", "cats">>, <<"the", "cat", "sat">>>>
    /\ rouge_ret.value = [rouge1 |-> One, rouge2 |-> One, rougeL |-> One]

\* C7: a call of a step that raised is the last call the step made, the
\* step has ended in the failure and has returned no record.
C7_FailurePropagates ==
    /\ \A i \in DOMAIN calls :
          calls[i].raised => /\ i = Len(calls)
                             /\ pc = "raised"
                             /\ DOMAIN ret = {}
    /\ pc = "raised" => calls # <<>> /\ calls[Len(calls)].raised

\* A validation step ended by a failure of generate, after the trim.
C7_Witness ==
    /\ pc = "raised"
    /\ kind = "validation_step"
    /\ Len(calls) = 2
    /\ calls[2].op = "generate"
    /\ calls[2].raised

\* C8 (as claimed): no record of validation_step or test_step has any of the
\* keys n_correct_pred, n_pred, val_loss, test_loss, and an epoch-end hook
\* run on a non-empty list of its step's records fails on a missing key.
C8_Claim ==
    /\ \A r \in EvalRecords :
          DOMAIN r \cap {"n_correct_pred", "n_pred", "val_loss", "test_loss"} = {}
    /\ (epoch_ret.status # "none" /\ outputs # <<>>) =>
          /\ epoch_ret.status = "raised"
          /\ epoch_ret.error = "KeyError"

\* C8 (amended): no record of validation_step or test_step has any of the
\* keys n_correct_pred, n_pred, test_loss, and no record of validation_step
\* has val_loss (a record of test_step has it); validation_epoch_end run on
\* a non-empty list of validation_step records fails on the missing key
\* val_loss, test_epoch_end on test_step records on the missing key test_loss.
C8_EpochEndKeys ==
    /\ \A r \in EvalRecords :
          DOMAIN r \cap {"n_correct_pred", "n_pred", "test_loss"} = {}
    /\ kind = "validation_step" => \A r \in EvalRecords : "val_loss" \notin DOMAIN r
    /\ kind = "test_step" => \A r \in EvalRecords : "val_loss" \in DOMAIN r
    /\ (epoch_ret.status # "none" /\ outputs # <<>>) =>
          epoch_ret = KeyError(IF kind = "validation_step" THEN "val_loss"
                               ELSE "test_loss")

\* test_epoch_end has run on two collected test_step records.
C8_Witness ==
    /\ kind = "test_step"
    /\ Len(outputs) = 2
    /\ epoch_ret.status = "raised"

\* C9: no record is held before the step is done; a finished validation
\* step has called, in this order, generate once with the trimmed source
\* ids and mask, the forward pass once, the metric calculator once; a
\* finished training step has made one forward pass and no other such call.
C9_CallOrder ==
    LET m == ModelCalls
        t == trim_seq2seq_batch(batch_in, pad_token_id)
    IN /\ DOMAIN ret # {} => pc = "done"
       /\ (pc = "done" /\ kind = "validation_step") =>
             /\ Len(m) = 3
             /\ m[1].op = "generate"
             /\ m[1].args = <<t[1], t[2]>>
             /\ m[2].op = "forward"
             /\ m[3].op = "calculate_rouge"
             /\ calls[Len(calls)] = m[3]
       /\ (pc = "done" /\ kind = "training_step") =>
             /\ Len(m) = 1
             /\ m[1].op = "forward"

\* A finished validation step on a batch whose source lost a column to the trim.
C9_Witness ==
    /\ pc = "done"
    /\ kind = "validation_step"
    /\ Len(source_ids[1]) < Len(batch_in.source_ids[1])
    /\ Len(batch_in.source_ids) > 1

\* C10: the two lists a validation step hands to calculate_rouge have one
\* string per example of the batch, the i-th of each made from the i-th
\* example, and one score is added to the aggregator per example.
C10_AlignedLists ==
    \A c \in DOMAIN calls :
        calls[c].op = "calculate_rouge" =>
            LET o == calls[c].args[1]
                r == calls[c].args[2]
                n == Len(batch_in.source_ids)
            IN /\ kind = "validation_step"
               /\ Len(o) = n
               /\ Len(r) = n
               /\ Len(Zip(r, o)) = n
               /\ \A e \in 1..n :
                     /\ r[e] = strip(decode(batch_in.target_ids[e]))
                     /\ o[e] = strip(decode(Text(GenPattern, gen_lens[e])))

\* A finished validation step on two examples, one of which decodes to the
\* empty string.
C10_Witness ==
    /\ pc = "done"
    /\ kind = "validation_step"
    /\ Len(batch_in.source_ids) = 2
    /\ preds[1] = <<>>
    /\ preds[2] # <<>>

=============================================================================
